---- MODULE Spec2Model ----
(***************************************************************************)
(* State-machine model of examples/enhanced_trading_bot.py                 *)
(* (class EnhancedTradingBot).                                             *)
(*                                                                         *)
(* The ledger is the pair self.positions / self.trade_history.  Fractions  *)
(* of the account balance (position sizes, order amounts, price offsets)   *)
(* are fixed-point integers in units of 1/Scale; money is in the same      *)
(* units times dollars.  Strings that the code parses are sequences of     *)
(* one-character strings, so that parsing is computed, not assumed.        *)
(* Time is a logical clock in seconds that only time.sleep advances.       *)
(***************************************************************************)
EXTENDS Integers, Sequences, FiniteSets, TLC

VARIABLES
    positions,      \* self.positions
    trade_history,  \* self.trade_history
    now,            \* what datetime.now() returns
    pc,             \* where run_continuous_trading is
    cycle,          \* number of run_trading_cycle calls started
    idx,            \* 1-based index of the next symbol of the cycle
    analysed,       \* symbols whose analyze_symbol call has ended, this cycle
    \* of the last analyze_symbol call of the cycle (symbol Last(analysed)):
    signal,         \* what get_enhanced_signal returned
    executed,       \* the instructions handed to execute_strategy, if it got there
    steps,          \* what analyze_symbol got to, in order
    result,         \* its outcome: "True", "False", or "raised"
    calls,          \* its simulate_order_placement calls, in order
    arm,            \* the strategy arm execute_strategy ran, "none" if none
    report,         \* what display_portfolio_status last logged
    interrupted,    \* a KeyboardInterrupt has been delivered
    api             \* last direct call of a ledger method (LedgerSpec only)

vars == <<positions, trade_history, now, pc, cycle, idx, analysed, signal,
          executed, steps, result, calls, arm, report, interrupted, api>>

ledger == <<positions, trade_history>>

----------------------------------------------------------------------------
(* Bounds of the model *)

MaxCycles == 2      \* cycles of the `while True` loop that are explored
MaxLevels == 2      \* longest scaling_levels list the service returns
MaxCalls == 3       \* direct ledger-method calls explored by LedgerSpec

(* Program constants *)

account_balance == 10000
confidence_threshold == 50
max_positions == 5
entry_price == 50000
cycle_interval == 300
\* fixed-point denominator of the model's fractions: hundredths of a percent
Scale == 100 * 100

symbols == <<"BTCUSDT", "ETHUSDT">>

----------------------------------------------------------------------------
(* Helpers *)

IsPrefix(s, t) == Len(s) <= Len(t) /\ SubSeq(t, 1, Len(s)) = s

Last(s) == s[Len(s)]

CountSymbol(ps, symbol) == Cardinality({i \in DOMAIN ps : ps[i].symbol = symbol})

----------------------------------------------------------------------------
(* float(s.replace('%', '')) / 100 on a string given as a character sequence *)

Digits == {"0", "1", "2", "3", "4", "5", "6", "7", "8", "9"}

DigitVal(c) ==
    CASE c = "0" -> 0 [] c = "1" -> 1 [] c = "2" -> 2 [] c = "3" -> 3
      [] c = "4" -> 4 [] c = "5" -> 5 [] c = "6" -> 6 [] c = "7" -> 7
      [] c = "8" -> 8 [] c = "9" -> 9

\* str.replace('%', ''): every '%' is removed, wherever it stands
replace_percent(s) == SelectSeq(s, LAMBDA c : c # "%")

RECURSIVE IntOf(_)
IntOf(ds) == IF ds = <<>> THEN 0
             ELSE IntOf(SubSeq(ds, 1, Len(ds) - 1)) * 10 + DigitVal(Last(ds))

\* the fraction digits, as a count of 1/Scale units (four decimals are kept)
FracOf(ds) ==
    LET d(i) == IF i <= Len(ds) THEN DigitVal(ds[i]) ELSE 0
    IN  d(1) * 1000 + d(2) * 100 + d(3) * 10 + d(4)

\* float(): [sign] digits [. digits], at least one digit; anything else is a
\* ValueError.  The value is in units of 1/Scale.
float_sign(s) == IF Len(s) > 0 /\ s[1] = "-" THEN -1 ELSE 1

float_body(s) == IF Len(s) > 0 /\ s[1] \in {"+", "-"} THEN Tail(s) ELSE s

\* where the decimal point is: past the end if there is none, 0 if the text
\* has a character that is neither a digit nor the one point
float_point(body) ==
    LET dots == {i \in DOMAIN body : body[i] = "."}
    IN  IF \E i \in DOMAIN body : body[i] \notin Digits \cup {"."} THEN 0
        ELSE IF dots = {} THEN Len(body) + 1
        ELSE IF Cardinality(dots) = 1 THEN CHOOSE i \in dots : TRUE
        ELSE 0

float_value(sign, ok, ip, fp) ==
    IF ok /\ Len(ip) + Len(fp) > 0
    THEN [ok |-> TRUE, value |-> sign * (IntOf(ip) * Scale + FracOf(fp))]
    ELSE [ok |-> FALSE, value |-> 0]

float_split(sign, body, point) ==
    float_value(sign, point > 0, SubSeq(body, 1, point - 1),
                SubSeq(body, point + 1, Len(body)))

float_unsigned(sign, body) == float_split(sign, body, float_point(body))

float(s) == float_unsigned(float_sign(s), float_body(s))

\* x / 100 on a float() result
per_cent(f) ==
    [ok    |-> f.ok,
     value |-> IF f.value < 0 THEN -((-f.value) \div 100) ELSE f.value \div 100]

\* a parse that reads any text that is not a number as 0
parse_percentage_lenient(s) ==
    [ok |-> TRUE, value |-> per_cent(float(replace_percent(s))).value]

\* float(x.replace('%', '')) / 100
parse_percentage(s) == per_cent(float(replace_percent(s)))

----------------------------------------------------------------------------
(* The ledger methods.  They act on a record                                *)
(*   S = [positions, trade_history, now, calls]                            *)
(* and return the record after the call together with the return value.    *)

None == [none |-> TRUE]

State(ps, th, t, cs) == [positions |-> ps, trade_history |-> th, now |-> t, calls |-> cs]

\* time.sleep(seconds)
sleep(S, seconds) == [S EXCEPT !.now = @ + seconds]

\* def get_position(self, symbol): the first position of the symbol, or None
get_position(ps, symbol) ==
    LET hits == {i \in DOMAIN ps : ps[i].symbol = symbol}
    IN  IF hits = {} THEN None
        ELSE ps[CHOOSE i \in hits : \A j \in hits : i <= j]

\* a position record that takes every order for a buy
new_position_always_long(order, risk_mgmt) ==
    [symbol             |-> order.symbol,
     side               |-> "long",
     amount             |-> order.amount,
     value              |-> account_balance * order.amount,
     entry_price        |-> entry_price,
     stop_loss          |-> risk_mgmt.stop_loss.price,
     take_profit_levels |-> risk_mgmt.take_profit.levels,
     timestamp          |-> order.timestamp,
     status             |-> "open"]

\* the position record of simulate_order_placement
new_position(order, risk_mgmt) ==
    [symbol             |-> order.symbol,
     side               |-> IF order.side = "buy" THEN "long" ELSE "short",
     amount             |-> order.amount,
     value              |-> account_balance * order.amount,
     entry_price        |-> entry_price,
     stop_loss          |-> risk_mgmt.stop_loss.price,
     take_profit_levels |-> risk_mgmt.take_profit.levels,
     timestamp          |-> order.timestamp,
     status             |-> "open"]

\* the trade record of simulate_order_placement
open_trade(order, position) ==
    [symbol    |-> order.symbol,
     action    |-> "open",
     side      |-> position.side,
     amount    |-> order.amount,
     price     |-> position.entry_price,
     timestamp |-> order.timestamp]

\* the trade record of simulate_position_exit (price = entry_price * 1.02)
close_trade(position, reason, t) ==
    [symbol    |-> position.symbol,
     action    |-> "close",
     side      |-> position.side,
     amount    |-> position.amount,
     price     |-> (position.entry_price * 102) \div 100,
     reason    |-> reason,
     timestamp |-> t]

\* the two appends of simulate_order_placement, and its call in the log; the
\* call returns what the log lines after the appends let it return
record_position(S, order, position, call) ==
    [st  |-> [S EXCEPT !.positions = Append(@, position),
                       !.trade_history = Append(@, open_trade(order, position)),
                       !.calls = Append(@, call)],
     ret |-> call.ret]

\* the appends with the trade inserted at the head of the history
record_position_prepending(S, order, position, call) ==
    [st  |-> [S EXCEPT !.positions = Append(@, position),
                       !.trade_history = <<open_trade(order, position)>> \o @,
                       !.calls = Append(@, call)],
     ret |-> call.ret]

placement_call(S, order, ret) ==
    [order |-> order, open_before |-> Len(S.positions), ret |-> ret]

\* simulate_order_placement that inserts the trade at the head of the history
simulate_order_placement_prepending(S, order, risk_mgmt) ==
    IF risk_mgmt.stop_loss.has /\ risk_mgmt.take_profit.has
    THEN record_position_prepending(S, order, new_position(order, risk_mgmt),
                                    placement_call(S, order, risk_mgmt.stop_loss.is_number))
    ELSE [st  |-> [S EXCEPT !.calls = Append(@, placement_call(S, order, FALSE))],
          ret |-> FALSE]

\* simulate_order_placement that has appended the trade when the position
\* record fails to build
simulate_order_placement_trade_first(S, order, risk_mgmt) ==
    IF risk_mgmt.stop_loss.has /\ risk_mgmt.take_profit.has
    THEN record_position(S, order, new_position(order, risk_mgmt),
                         placement_call(S, order, risk_mgmt.stop_loss.is_number))
    ELSE [st  |-> [S EXCEPT !.trade_history =
                                Append(@, [symbol |-> order.symbol, action |-> "open",
                                           side |-> order.side, amount |-> order.amount,
                                           price |-> entry_price,
                                           timestamp |-> order.timestamp]),
                            !.calls = Append(@, placement_call(S, order, FALSE))],
          ret |-> FALSE]

\* def simulate_order_placement(self, order, risk_mgmt) -> bool
\* A missing risk_mgmt key raises KeyError while the position record is
\* built, before either list is touched; the method catches it and returns
\* False.  A stop-loss price that is not a number (JSON null) raises in the
\* log line f"{risk_mgmt['stop_loss']['price']:,.2f}", after both appends:
\* the method returns False with the position and the trade recorded.
simulate_order_placement(S, order, risk_mgmt) ==
    IF risk_mgmt.stop_loss.has /\ risk_mgmt.take_profit.has
    THEN record_position(S, order, new_position(order, risk_mgmt),
                         placement_call(S, order, risk_mgmt.stop_loss.is_number))
    ELSE [st  |-> [S EXCEPT !.calls = Append(@, placement_call(S, order, FALSE))],
          ret |-> FALSE]

\* def simulate_position_exit(self, position, reason) -> bool
\* self.positions = [p for p in self.positions if p != position]
simulate_position_exit(S, position, reason) ==
    [st  |-> [S EXCEPT !.positions = SelectSeq(@, LAMBDA p : p # position),
                       !.trade_history = Append(@, close_trade(position, reason, S.now))],
     ret |-> TRUE]

----------------------------------------------------------------------------
(* The strategy arms.  Each returns [st, ret, exc]: exc is TRUE when the   *)
(* arm is left by an exception (KeyError, ValueError), which               *)
(* execute_strategy catches.                                               *)

Returned(S, r) == [st |-> S, ret |-> r, exc |-> FALSE]
Raised(S)      == [st |-> S, ret |-> FALSE, exc |-> TRUE]

\* the accumulation order with the delay counted from 1 (enumerate(levels, 1))
accumulation_order_one_based(symbol, position_size, level, i, price_offset, t) ==
    [symbol       |-> symbol,
     side         |-> "buy",
     amount       |-> (position_size * level.percentage) \div 100,
     price_offset |-> price_offset,
     type         |-> "limit",
     delay        |-> (i + 1) * 900,
     timestamp    |-> t]

\* the order dict built for scaling level i (0-based) of an accumulation
accumulation_order(symbol, position_size, level, i, price_offset, t) ==
    [symbol       |-> symbol,
     side         |-> "buy",
     amount       |-> (position_size * level.percentage) \div 100,
     price_offset |-> price_offset,
     type         |-> "limit",
     delay        |-> i * 900,
     timestamp    |-> t]

\* the pause between two levels: if i < len(scaling_levels) - 1: time.sleep(5)
level_pause(S, i, n) == IF i < n - 1 THEN sleep(S, 5) ELSE S

\* for i, level in enumerate(scaling_levels): ...   (from index i on)
RECURSIVE accumulation_loop(_, _, _, _, _, _)

\* the body of the loop for level i, whose price_offset parsed to offset
level_step(S, symbol, position_size, scaling_levels, i, risk_mgmt, offset) ==
    IF ~offset.ok THEN Raised(S)
    ELSE accumulation_loop(
            level_pause(
                simulate_order_placement(
                    S,
                    accumulation_order(symbol, position_size, scaling_levels[i + 1], i,
                                       offset.value, S.now),
                    risk_mgmt).st,
                i, Len(scaling_levels)),
            symbol, position_size, scaling_levels, i + 1, risk_mgmt)

accumulation_loop(S, symbol, position_size, scaling_levels, i, risk_mgmt) ==
    IF i >= Len(scaling_levels) THEN Returned(S, TRUE)
    ELSE level_step(S, symbol, position_size, scaling_levels, i, risk_mgmt,
                    parse_percentage(scaling_levels[i + 1].price_offset))

\* def execute_accumulation_strategy(self, symbol, position_mgmt, risk_mgmt)
execute_accumulation_strategy(S, symbol, position_mgmt, risk_mgmt) ==
    IF position_mgmt.entry_method.type = "scaled_entry"
    THEN IF ~position_mgmt.has_scaling_levels
         THEN Raised(S)     \* position_mgmt['scaling_levels']: KeyError
         ELSE accumulation_loop(S, symbol, position_mgmt.position_size.percentage,
                                position_mgmt.scaling_levels, 0, risk_mgmt)
    ELSE Returned(S, TRUE)

\* an order dict without price_offset and delay
plain_order(symbol, side, amount, type, t) ==
    [symbol |-> symbol, side |-> side, amount |-> amount, type |-> type,
     timestamp |-> t]

\* if existing_position: self.simulate_position_exit(existing_position, reason)
exit_if(S, wanted, existing_position, reason) ==
    IF wanted THEN simulate_position_exit(S, existing_position, reason).st ELSE S

\* the sell order placed whatever the size
short_unguarded(S, symbol, type, position_mgmt, risk_mgmt) ==
    Returned(simulate_order_placement(
                 S,
                 plain_order(symbol, "sell", position_mgmt.position_size.percentage,
                             type, S.now),
                 risk_mgmt).st, TRUE)

\* if position_mgmt['position_size']['percentage'] > 0: place a sell order
short_if_sized(S, symbol, type, position_mgmt, risk_mgmt) ==
    IF position_mgmt.position_size.percentage > 0
    THEN Returned(simulate_order_placement(
                      S,
                      plain_order(symbol, "sell", position_mgmt.position_size.percentage,
                                  type, S.now),
                      risk_mgmt).st, TRUE)
    ELSE Returned(S, TRUE)

\* the distribution arm once get_position has answered
distribution_with(S, symbol, position_mgmt, risk_mgmt, existing_position) ==
    short_if_sized(exit_if(S, existing_position # None, existing_position,
                           "distribution_exit"),
                   symbol, "market", position_mgmt, risk_mgmt)

\* def execute_distribution_strategy(self, symbol, position_mgmt, risk_mgmt)
execute_distribution_strategy(S, symbol, position_mgmt, risk_mgmt) ==
    distribution_with(S, symbol, position_mgmt, risk_mgmt,
                      get_position(S.positions, symbol))

\* a markup arm that places its order whatever the entry method
execute_markup_strategy_any_entry(S, symbol, position_mgmt, risk_mgmt) ==
    Returned(simulate_order_placement(
                 S,
                 plain_order(symbol, "buy", position_mgmt.position_size.percentage,
                             "market", S.now),
                 risk_mgmt).st, TRUE)

\* def execute_markup_strategy(self, symbol, position_mgmt, risk_mgmt)
execute_markup_strategy(S, symbol, position_mgmt, risk_mgmt) ==
    IF position_mgmt.entry_method.type = "immediate_entry"
    THEN Returned(simulate_order_placement(
                      S,
                      plain_order(symbol, "buy", position_mgmt.position_size.percentage,
                                  "market", S.now),
                      risk_mgmt).st, TRUE)
    ELSE Returned(S, TRUE)

\* the markdown arm once get_position has answered
\* if existing_position and existing_position['side'] == 'long'
markdown_with(S, symbol, position_mgmt, risk_mgmt, existing_position) ==
    short_if_sized(exit_if(S, existing_position # None /\ existing_position.side = "long",
                           existing_position, "markdown_exit"),
                   symbol, "limit", position_mgmt, risk_mgmt)

\* def execute_markdown_strategy(self, symbol, position_mgmt, risk_mgmt)
execute_markdown_strategy(S, symbol, position_mgmt, risk_mgmt) ==
    markdown_with(S, symbol, position_mgmt, risk_mgmt,
                  get_position(S.positions, symbol))

\* '-0.1%', the default of entry_method.get('price_offset', '-0.1%')
DefaultOffset == <<"-", "0", ".", "1", "%">>

\* entry_method.get('price_offset', '-0.1%')
offset_text(entry_method) ==
    IF entry_method.has_price_offset THEN entry_method.price_offset ELSE DefaultOffset

\* the limit order of the consolidation arm, whose price_offset parsed to offset
consolidation_with(S, symbol, position_mgmt, risk_mgmt, offset) ==
    IF ~offset.ok THEN Raised(S)
    ELSE Returned(simulate_order_placement(
                      S,
                      [symbol       |-> symbol,
                       side         |-> "buy",
                       amount       |-> position_mgmt.position_size.percentage,
                       type         |-> "limit",
                       price_offset |-> offset.value,
                       timestamp    |-> S.now],
                      risk_mgmt).st, TRUE)

\* def execute_consolidation_strategy(self, symbol, position_mgmt, risk_mgmt)
execute_consolidation_strategy(S, symbol, position_mgmt, risk_mgmt) ==
    IF position_mgmt.entry_method.type = "limit_entry"
    THEN consolidation_with(S, symbol, position_mgmt, risk_mgmt,
                            parse_percentage(offset_text(position_mgmt.entry_method)))
    ELSE Returned(S, TRUE)

\* def execute_neutral_strategy(self, symbol, position_mgmt, risk_mgmt)
execute_neutral_strategy(S, symbol, position_mgmt, risk_mgmt) ==
    IF position_mgmt.position_size.percentage > 0
    THEN Returned(simulate_order_placement(
                      S,
                      plain_order(symbol, "buy",
                                  position_mgmt.position_size.percentage \div 2,
                                  "limit", S.now),
                      risk_mgmt).st, TRUE)
    ELSE Returned(S, TRUE)

\* a chain in which an unrecognized phase selects nothing the else would run
strategy_arm_without_else(market_phase) ==
    CASE market_phase = "ACCUMULATION"  -> "accumulation"
      [] market_phase = "DISTRIBUTION"  -> "distribution"
      [] market_phase = "MARKUP"        -> "markup"
      [] market_phase = "MARKDOWN"      -> "markdown"
      [] market_phase = "CONSOLIDATION" -> "consolidation"
      [] market_phase = "NEUTRAL"       -> "neutral"
      [] OTHER                          -> "markup"

\* the if/elif/else chain of execute_strategy: the arm the phase selects
strategy_arm(market_phase) ==
    CASE market_phase = "ACCUMULATION"  -> "accumulation"
      [] market_phase = "DISTRIBUTION"  -> "distribution"
      [] market_phase = "MARKUP"        -> "markup"
      [] market_phase = "MARKDOWN"      -> "markdown"
      [] market_phase = "CONSOLIDATION" -> "consolidation"
      [] OTHER                          -> "neutral"

\* return self.execute_<arm>_strategy(symbol, position_mgmt, risk_mgmt)
run_arm(selected, S, symbol, position_mgmt, risk_mgmt) ==
    CASE selected = "accumulation" ->
            execute_accumulation_strategy(S, symbol, position_mgmt, risk_mgmt)
      [] selected = "distribution" ->
            execute_distribution_strategy(S, symbol, position_mgmt, risk_mgmt)
      [] selected = "markup" ->
            execute_markup_strategy(S, symbol, position_mgmt, risk_mgmt)
      [] selected = "markdown" ->
            execute_markdown_strategy(S, symbol, position_mgmt, risk_mgmt)
      [] selected = "consolidation" ->
            execute_consolidation_strategy(S, symbol, position_mgmt, risk_mgmt)
      [] selected = "neutral" ->
            execute_neutral_strategy(S, symbol, position_mgmt, risk_mgmt)

\* what the selected arm did, with the arm's name
arm_outcome(selected, r) ==
    [st |-> r.st, ret |-> r.ret, exc |-> r.exc, arm |-> selected]

dispatch_to(selected, S, symbol, position_mgmt, risk_mgmt) ==
    arm_outcome(selected, run_arm(selected, S, symbol, position_mgmt, risk_mgmt))

\* the if/elif chain of execute_strategy
dispatch(S, symbol, market_phase, position_mgmt, risk_mgmt) ==
    dispatch_to(strategy_arm(market_phase), S, symbol, position_mgmt, risk_mgmt)

\* except Exception: return False.  What the arm did to the ledger before it
\* raised stays done.
caught(r) == [st |-> r.st, ret |-> ~r.exc /\ r.ret, arm |-> r.arm, exc |-> r.exc]

\* def execute_strategy(self, symbol, instructions) -> bool
execute_strategy(S, symbol, instructions) ==
    IF ~instructions.has_execution_instructions
    \* instructions['execution_instructions']: KeyError
    THEN [st |-> S, ret |-> FALSE, arm |-> "none", exc |-> TRUE]
    ELSE caught(dispatch(S, symbol, instructions.signal_summary.market_phase,
                         instructions.execution_instructions.position_management,
                         instructions.execution_instructions.risk_management))

----------------------------------------------------------------------------
(* The HTTP calls.  A response is [ok, json]: ok is FALSE for a transport  *)
(* failure or a non-2xx status (requests.exceptions.RequestException).     *)

NoResponse == [ok |-> FALSE]

\* def get_enhanced_signal(self, symbol): the JSON body, or None
get_enhanced_signal(response) == IF response.ok THEN response.json ELSE None

\* def get_bot_instructions(self, symbol): the JSON body, or None
get_bot_instructions(response) == IF response.ok THEN response.json ELSE None

\* validate_strategy that takes a failed call for an approval
validate_strategy_failing_open(response) ==
    IF response.ok THEN response.json ELSE [has_valid |-> TRUE, valid |-> TRUE]

\* def validate_strategy(self, signal): the JSON body, or {'valid': False, 'error': ...}
validate_strategy(response) ==
    IF response.ok THEN response.json ELSE [has_valid |-> TRUE, valid |-> FALSE]

\* the confidence comparison turned round
below_threshold_inverted(sig) == sig.confidence > confidence_threshold

\* if signal['confidence'] < self.confidence_threshold
below_threshold(sig) == sig.confidence < confidence_threshold

\* a gate that lets an analysis through when the list is exactly full
at_position_limit_exceeded(ps) == Len(ps) > max_positions

\* if len(self.positions) >= self.max_positions
at_position_limit(ps) == Len(ps) >= max_positions

\* what analyze_symbol can get to, in the order of its code
AllSteps == <<"get_enhanced_signal", "confidence_gate", "get_bot_instructions",
              "validate_strategy", "position_gate", "execute_strategy">>

\* an analysis that stopped after its first n steps
Stopped(S, ret, n, sig) ==
    [st |-> S, ret |-> ret, steps |-> SubSeq(AllSteps, 1, n), signal |-> sig,
     executed |-> None, arm |-> "none"]

\* success = self.execute_strategy(symbol, instructions); return success
Ran(run, sig, instructions) ==
    [st |-> run.st, ret |-> IF run.ret THEN "True" ELSE "False", steps |-> AllSteps,
     signal |-> sig, executed |-> instructions, arm |-> run.arm]

\* analyze_symbol without the check of the validator's verdict
analyze_with_unvalidated(S, symbol, sig, instructions, validation) ==
    IF sig = None THEN Stopped(S, "False", 1, sig)
    ELSE IF ~sig.has_confidence THEN Stopped(S, "raised", 2, sig)
    ELSE IF below_threshold(sig) THEN Stopped(S, "False", 2, sig)
    ELSE IF instructions = None THEN Stopped(S, "False", 3, sig)
    ELSE IF at_position_limit(S.positions) THEN Stopped(S, "False", 5, sig)
    ELSE Ran(execute_strategy(S, symbol, instructions), sig, instructions)

\* analyze_symbol given what its three calls return
analyze_with(S, symbol, sig, instructions, validation) ==
    IF sig = None THEN Stopped(S, "False", 1, sig)
    ELSE IF ~sig.has_confidence THEN Stopped(S, "raised", 2, sig)
    ELSE IF below_threshold(sig) THEN Stopped(S, "False", 2, sig)
    ELSE IF instructions = None THEN Stopped(S, "False", 3, sig)
    ELSE IF ~(validation.has_valid /\ validation.valid) THEN Stopped(S, "False", 4, sig)
    ELSE IF at_position_limit(S.positions) THEN Stopped(S, "False", 5, sig)
    ELSE Ran(execute_strategy(S, symbol, instructions), sig, instructions)

\* def analyze_symbol(self, symbol) -> bool
\* The three responses are what the service answers if it is asked; steps
\* lists what analyze_symbol got to.  ret is "raised" when an exception
\* leaves analyze_symbol (signal['confidence'] on a body without that key).
analyze_symbol(S, symbol, sigR, insR, valR) ==
    analyze_with(S, symbol, get_enhanced_signal(sigR), get_bot_instructions(insR),
                 validate_strategy(valR))

----------------------------------------------------------------------------
(* What the external service is taken to answer *)

SignalResponses ==
    {NoResponse,
     [ok |-> TRUE, json |-> [has_confidence |-> FALSE, confidence |-> 0]],
     [ok |-> TRUE, json |-> [has_confidence |-> TRUE, confidence |-> 49]],
     [ok |-> TRUE, json |-> [has_confidence |-> TRUE, confidence |-> 50]]}

ValidationResponses ==
    {NoResponse,
     [ok |-> TRUE, json |-> [has_valid |-> TRUE, valid |-> TRUE]],
     [ok |-> TRUE, json |-> [has_valid |-> TRUE, valid |-> FALSE]],
     [ok |-> TRUE, json |-> [has_valid |-> FALSE, valid |-> FALSE]]}

Phases == {"ACCUMULATION", "DISTRIBUTION", "MARKUP", "MARKDOWN", "CONSOLIDATION",
           "NEUTRAL", "SIDEWAYS"}

GoodOffset == <<"-", "2", ".", "5", "%">>
BadOffset  == <<"x", "%">>

\* The scaling ladder the service answers with: level i (1-based) carries
\* percentage 50 \div i and price offset "-i%"; the levels differ, so that
\* their order shows in the orders built from them.
OffsetText(i) == <<"-", CHOOSE d \in Digits : DigitVal(d) = i, "%">>

Level(i) == [percentage |-> 50 \div i, price_offset |-> OffsetText(i)]

BadLevel == [percentage |-> 25, price_offset |-> BadOffset]

Ladder(n) == [i \in 1..n |-> Level(i)]

\* scaling_levels lists: the ladders of up to MaxLevels levels, and the
\* ladders ending in a malformed level (the loop never gets past its first
\* malformed level)
GoodLevelSeqs == {Ladder(n) : n \in 0..MaxLevels}

LevelSeqs ==
    GoodLevelSeqs \cup {Append(Ladder(n), BadLevel) : n \in 0..(MaxLevels - 1)}

Risk(stop, take) ==
    [stop_loss   |-> [has |-> stop, price |-> 49000, is_number |-> TRUE],
     take_profit |-> [has |-> take, levels |-> <<51000, 52000>>]]

RiskComplete == Risk(TRUE, TRUE)

\* a stop_loss whose price is JSON null (None): price 0 stands for None
RiskNullPrice ==
    [stop_loss   |-> [has |-> TRUE, price |-> 0, is_number |-> FALSE],
     take_profit |-> [has |-> TRUE, levels |-> <<51000, 52000>>]]

RiskVariants == {RiskComplete, Risk(FALSE, TRUE), Risk(TRUE, FALSE), RiskNullPrice}

\* entry_method variants; nested carries the scaling levels inside entry_method
EntryMethod(type, nested, has_offset, offset) ==
    [type |-> type, has_scaling_levels |-> nested # <<>>, scaling_levels |-> nested,
     has_price_offset |-> has_offset, price_offset |-> offset]

Immediate   == EntryMethod("immediate_entry", <<>>, FALSE, <<>>)
Scaled      == EntryMethod("scaled_entry", <<>>, FALSE, <<>>)
Limit(text) == EntryMethod("limit_entry", <<>>, TRUE, text)
LimitBare   == EntryMethod("limit_entry", <<>>, FALSE, <<>>)

\* position_management with the scaling levels beside entry_method (has) or not
PositionMgmt(em, has, levels, pct) ==
    [entry_method |-> em, has_scaling_levels |-> has, scaling_levels |-> levels,
     position_size |-> [percentage |-> pct]]

Instructions(phase, position_mgmt, risk_mgmt) ==
    [signal_summary |-> [market_phase |-> phase],
     has_execution_instructions |-> TRUE,
     execution_instructions |-> [position_management |-> position_mgmt,
                                 risk_management |-> risk_mgmt]]

Sizes == {0, 400}       \* position_size.percentage: 0 and 0.04

\* The instructions explored: every phase with the entry methods, sizes and
\* risk blocks its arm tells apart, and one body without execution_instructions.
InstructionSet ==
    {Instructions("ACCUMULATION", PositionMgmt(Scaled, TRUE, l, 400), RiskComplete) :
        l \in LevelSeqs}
    \cup {Instructions("ACCUMULATION",
                       PositionMgmt(EntryMethod("scaled_entry", l, FALSE, <<>>),
                                    FALSE, <<>>, 400), RiskComplete) :
            l \in {g \in GoodLevelSeqs : Len(g) = MaxLevels}}
    \cup {Instructions(p, PositionMgmt(Immediate, FALSE, <<>>, 400), RiskComplete) :
            p \in Phases}
    \cup {Instructions(p, PositionMgmt(Immediate, FALSE, <<>>, 0), RiskComplete) :
            p \in {"DISTRIBUTION", "MARKDOWN", "NEUTRAL"}}
    \cup {Instructions(p, PositionMgmt(Immediate, FALSE, <<>>, 400), Risk(FALSE, TRUE)) :
            p \in {"DISTRIBUTION", "MARKDOWN", "NEUTRAL"}}
    \cup {Instructions(p, PositionMgmt(i, i.type = "scaled_entry", <<>>, 400), r) :
            p \in {"ACCUMULATION", "MARKUP"}, i \in {Scaled, Immediate},
            r \in RiskVariants}
    \cup {Instructions("CONSOLIDATION", PositionMgmt(e, FALSE, <<>>, 400), RiskComplete) :
            e \in {Limit(GoodOffset), Limit(BadOffset), LimitBare}}
    \cup {[signal_summary |-> [market_phase |-> "MARKUP"],
           has_execution_instructions |-> FALSE]}

InstructionResponses == {NoResponse} \cup {[ok |-> TRUE, json |-> i] : i \in InstructionSet}

----------------------------------------------------------------------------
(* The trading loop *)

RECURSIVE SumValues(_)
SumValues(ps) == IF ps = <<>> THEN 0 ELSE ps[1].value + SumValues(Tail(ps))

\* a status whose total is taken over the trades instead of the open positions
display_portfolio_status_over_trades(ps, th) ==
    [open_positions |-> Len(ps),
     total_trades   |-> Len(th),
     has_total      |-> ps # <<>>,
     total_value    |-> IF ps # <<>> THEN account_balance * Len(th) ELSE 0]

\* def get_performance_summary(self): the dict it returns
get_performance_summary(ps, th) ==
    IF th = <<>> THEN [message |-> "No trades executed yet"]
    ELSE [total_trades    |-> Len(th),
          open_trades     |-> Cardinality({i \in DOMAIN th : th[i].action = "open"}),
          closed_trades   |-> Cardinality({i \in DOMAIN th : th[i].action = "close"}),
          symbols_traded  |-> Cardinality({th[i].symbol : i \in DOMAIN th}),
          account_balance |-> account_balance,
          open_positions  |-> Len(ps),
          last_trade      |-> Last(th)]

\* def display_portfolio_status(self): what it logs
display_portfolio_status(ps, th) ==
    [open_positions |-> Len(ps),
     total_trades   |-> Len(th),
     has_total      |-> ps # <<>>,
     total_value    |-> IF ps # <<>> THEN SumValues(ps) ELSE 0]

\* a loop without the try/except of run_trading_cycle: an exception ends it
cycle_halts_on_raise(ret, i) ==
    IF ret = "raised" THEN "stopped"
    ELSE IF i < Len(symbols) THEN "analyze" ELSE "cycle_end"

\* the for loop of run_trading_cycle after the analysis of symbols[i] ended
\* with outcome ret: `except Exception: continue` goes on like a return does
cycle_continues(ret, i) == IF i < Len(symbols) THEN "analyze" ELSE "cycle_end"

\* an interrupt that is only honoured between cycles
on_interrupt_deferred(p) == IF p \in {"sleeping", "cycle_start"} THEN "stopped" ELSE p

\* except KeyboardInterrupt, around the while loop of run_continuous_trading:
\* where the loop is after an interrupt delivered at p
on_interrupt(p) == "stopped"

Init ==
    /\ positions = <<>>
    /\ trade_history = <<>>
    /\ now = 0
    /\ pc = "cycle_start"
    /\ cycle = 0
    /\ idx = 1
    /\ analysed = <<>>
    /\ signal = None
    /\ executed = None
    /\ steps = <<>>
    /\ result = "none"
    /\ calls = <<>>
    /\ arm = "none"
    /\ report = None
    /\ interrupted = FALSE
    /\ api = None

\* run_trading_cycle is entered: the first display_portfolio_status.  No
\* symbol of the cycle is analysed yet.
StartCycle ==
    /\ pc = "cycle_start"
    /\ cycle < MaxCycles
    /\ cycle' = cycle + 1
    /\ report' = display_portfolio_status(positions, trade_history)
    /\ idx' = 1
    /\ analysed' = <<>>
    /\ pc' = IF symbols = <<>> THEN "cycle_end" ELSE "analyze"
    /\ signal' = None
    /\ executed' = None
    /\ steps' = <<>>
    /\ result' = "none"
    /\ calls' = <<>>
    /\ arm' = "none"
    /\ UNCHANGED <<positions, trade_history, now, interrupted, api>>

Asked(r, step) == \E k \in DOMAIN r.steps : r.steps[k] = step

\* the rate-limit pause after analyze_symbol returned; an exception skips it
after_analysis(r) == IF r.ret = "raised" THEN r.st ELSE sleep(r.st, 2)

\* the state after analyze_symbol(symbol) ended as r, leaving the ledger as S
Analysed(r, S, symbol) ==
    /\ positions' = S.positions
    /\ trade_history' = S.trade_history
    /\ now' = S.now
    /\ calls' = S.calls
    /\ signal' = r.signal
    /\ executed' = r.executed
    /\ steps' = r.steps
    /\ result' = r.ret
    /\ arm' = r.arm
    /\ analysed' = Append(analysed, symbol)
    /\ pc' = cycle_continues(r.ret, idx)
    /\ idx' = idx + 1

Finish(r, symbol) == Analysed(r, after_analysis(r), symbol)

\* one iteration of `for symbol in symbols`: analyze_symbol(symbol), then
\* time.sleep(2) unless analyze_symbol raised.  A response is drawn for each
\* call analyze_symbol makes.
AnalyzeFrom(S0, symbol) ==
    \E sigR \in SignalResponses :
    \E insR \in (IF Asked(analyze_symbol(S0, symbol, sigR, NoResponse, NoResponse),
                          "get_bot_instructions")
                 THEN InstructionResponses ELSE {NoResponse}) :
    \E valR \in (IF Asked(analyze_symbol(S0, symbol, sigR, insR, NoResponse),
                          "validate_strategy")
                 THEN ValidationResponses ELSE {NoResponse}) :
        Finish(analyze_symbol(S0, symbol, sigR, insR, valR), symbol)

AnalyzeSymbol ==
    /\ pc = "analyze"
    /\ AnalyzeFrom(State(positions, trade_history, now, <<>>), symbols[idx])
    /\ UNCHANGED <<cycle, report, interrupted, api>>

\* the end of run_trading_cycle: the second display_portfolio_status
EndCycle ==
    /\ pc = "cycle_end"
    /\ report' = display_portfolio_status(positions, trade_history)
    /\ pc' = "sleeping"
    /\ UNCHANGED <<positions, trade_history, now, cycle, idx, analysed, signal,
                   executed, steps, result, calls, arm, interrupted, api>>

\* time.sleep(cycle_interval), then the next turn of `while True`
Sleep ==
    /\ pc = "sleeping"
    /\ now' = now + cycle_interval
    /\ pc' = "cycle_start"
    /\ UNCHANGED <<positions, trade_history, cycle, idx, analysed, signal,
                   executed, steps, result, calls, arm, report, interrupted, api>>

\* A KeyboardInterrupt is delivered while the loop waits: in time.sleep(2)
\* between two symbols (pc = "analyze" or "cycle_end"), in
\* time.sleep(cycle_interval), or as a cycle is about to start.
KeyboardInterrupt ==
    /\ pc \in {"cycle_start", "analyze", "cycle_end", "sleeping"}
    /\ ~interrupted
    /\ interrupted' = TRUE
    /\ pc' = on_interrupt(pc)
    /\ UNCHANGED <<positions, trade_history, now, cycle, idx, analysed, signal,
                   executed, steps, result, calls, arm, report, api>>

Next == StartCycle \/ AnalyzeSymbol \/ EndCycle \/ Sleep \/ KeyboardInterrupt

Spec == Init /\ [][Next]_vars

----------------------------------------------------------------------------
(* The ledger methods called directly, as a client of the class may call   *)
(* them: any order dict, any position dict.  api records the last call and *)
(* the ledger it found.                                                    *)

OrderTimes == {0, 5}    \* order['timestamp'] values a caller passes

ApiOrders ==
    {plain_order(symbol, side, 400, "market", t) :
        symbol \in {symbols[i] : i \in DOMAIN symbols},
        side \in {"buy", "sell"}, t \in OrderTimes}

\* position dicts a caller may pass to simulate_position_exit
ApiPositions == {new_position(o, RiskComplete) : o \in ApiOrders}

ApiCall(op, arg, ret, n) ==
    [op |-> op, arg |-> arg, ret |-> ret, n |-> n,
     prev |-> [op |-> api.op, arg |-> api.arg, ret |-> api.ret],
     positions_before |-> positions, trades_before |-> trade_history,
     report_before |-> report]

\* the state after the call op(arg) returned r
Called(op, arg, r) ==
    /\ positions' = r.st.positions
    /\ trade_history' = r.st.trade_history
    /\ calls' = r.st.calls
    /\ api' = ApiCall(op, arg, r.ret, api.n + 1)

LedgerInit ==
    /\ positions = <<>>
    /\ trade_history = <<>>
    /\ now = 0
    /\ pc = "api"
    /\ cycle = 0
    /\ idx = 1
    /\ analysed = <<>>
    /\ signal = None
    /\ executed = None
    /\ steps = <<>>
    /\ result = "none"
    /\ calls = <<>>
    /\ arm = "none"
    /\ report = None
    /\ interrupted = FALSE
    /\ api = [op |-> "none", arg |-> None, ret |-> FALSE, n |-> 0]

\* bot.simulate_order_placement(order, risk_mgmt)
PlaceOrder ==
    /\ api.n < MaxCalls
    /\ \E order \in ApiOrders, risk_mgmt \in {RiskComplete, Risk(FALSE, TRUE), RiskNullPrice} :
        Called("simulate_order_placement", order,
               simulate_order_placement(State(positions, trade_history, now, <<>>),
                                        order, risk_mgmt))
    /\ UNCHANGED <<now, pc, cycle, idx, analysed, signal, executed, steps, result,
                   arm, report, interrupted>>

\* bot.simulate_position_exit(position, reason)
ExitPosition ==
    /\ api.n < MaxCalls
    /\ \E position \in ApiPositions \cup {positions[i] : i \in DOMAIN positions} :
        Called("simulate_position_exit", position,
               simulate_position_exit(State(positions, trade_history, now, <<>>),
                                      position, "manual_exit"))
    /\ UNCHANGED <<now, pc, cycle, idx, analysed, signal, executed, steps, result,
                   arm, report, interrupted>>

\* a read-only view was called and answered out: neither method assigns to
\* self.positions or self.trade_history
Viewed(op, out) ==
    /\ report' = out
    /\ api' = ApiCall(op, None, TRUE, api.n + 1)
    /\ UNCHANGED <<positions, trade_history, calls>>

\* bot.display_portfolio_status()
DisplayStatus ==
    /\ api.n < MaxCalls
    /\ Viewed("display_portfolio_status", display_portfolio_status(positions, trade_history))
    /\ UNCHANGED <<now, pc, cycle, idx, analysed, signal, executed, steps, result,
                   arm, interrupted>>

\* bot.get_performance_summary()
PerformanceSummary ==
    /\ api.n < MaxCalls
    /\ Viewed("get_performance_summary", get_performance_summary(positions, trade_history))
    /\ UNCHANGED <<now, pc, cycle, idx, analysed, signal, executed, steps, result,
                   arm, interrupted>>

LedgerNext == PlaceOrder \/ ExitPosition \/ DisplayStatus \/ PerformanceSummary

LedgerSpec == LedgerInit /\ [][LedgerNext]_vars

\* the loop makes progress unless it is interrupted: the program is sequential
FairSpec == Spec /\ WF_vars(StartCycle \/ AnalyzeSymbol \/ EndCycle \/ Sleep)

----------------------------------------------------------------------------
(* Properties *)

SymbolSet == {symbols[i] : i \in DOMAIN symbols}

Front(s) == SubSeq(s, 1, Len(s) - 1)

\* the step in which analyze_symbol(symbols[idx]) runs
AnalysisStep == pc = "analyze" /\ analysed' # analysed

\* the last analysis got to execute_strategy with a complete instructions body
Executed == executed # None /\ executed.has_execution_instructions

ExecutedPhase == executed.signal_summary.market_phase
ExecutedPositionMgmt == executed.execution_instructions.position_management
ExecutedRiskMgmt == executed.execution_instructions.risk_management

\* C1: in every reachable state the open-position list holds at most one
\* position per symbol.
C1_OnePositionPerSymbol == \A s \in SymbolSet : CountSymbol(positions, s) <= 1

\* C2: when the DISTRIBUTION or MARKDOWN arm runs for a symbol that has an
\* open position (long or short), that position is gone from the open list
\* and the first trade the arm appends is its close; when the arm is done at
\* most one position of the symbol is open.  The claim is stated for the arms
\* that start from a ledger with at most one open position of the symbol, so
\* that a violation is the arm's own doing.
C2_CloseBeforeOpen ==
    [][(/\ AnalysisStep
        /\ executed' # None
        /\ executed'.has_execution_instructions
        /\ executed'.signal_summary.market_phase \in {"DISTRIBUTION", "MARKDOWN"}
        /\ CountSymbol(positions, symbols[idx]) <= 1)
       => LET symbol   == symbols[idx]
              existing == get_position(positions, symbol)
              n        == Len(trade_history)
          IN  /\ CountSymbol(positions', symbol) <= 1
              /\ existing # None =>
                    /\ \A i \in DOMAIN positions' : positions'[i] # existing
                    /\ Len(trade_history') > n
                    /\ trade_history'[n + 1].action = "close"
                    /\ trade_history'[n + 1].symbol = symbol]_vars

\* C3: simulate_order_placement is never executed while the number of open
\* positions is max_positions or more.
C3_NoOpenAtLimit == \A i \in DOMAIN calls : calls[i].open_before < max_positions

\* C4: an analysis whose signal has confidence < confidence_threshold never
\* gets to execute_strategy and leaves positions and trade_history as they were.
C4_ConfidenceGate ==
    [][(/\ AnalysisStep
        /\ signal' # None
        /\ signal'.has_confidence
        /\ signal'.confidence < confidence_threshold)
       => /\ ~\E k \in DOMAIN steps' : steps'[k] = "execute_strategy"
          /\ executed' = None
          /\ calls' = <<>>
          /\ positions' = positions
          /\ trade_history' = trade_history]_vars

C4_Witness ==
    /\ signal # None
    /\ signal.has_confidence
    /\ signal.confidence < confidence_threshold
    /\ steps = <<"get_enhanced_signal", "confidence_gate">>
    /\ result = "False"
    /\ positions # <<>>

\* C5 as claimed: a loop stopped by an interrupt has analysed every symbol of
\* the cycle it was in.
C5_StopsAtCycleBoundary == pc = "stopped" => (cycle = 0 \/ analysed = symbols)

\* C5 as amended: an interrupt stops the loop at once; the symbols of the
\* cycle that were not analysed yet are never analysed and the ledger stays
\* as the interrupt found it.
C5_StopsAtOnce ==
    /\ [](interrupted => pc = "stopped")
    /\ [][interrupted' => UNCHANGED <<positions, trade_history, analysed, idx, cycle>>]_vars

C5_Witness ==
    /\ interrupted
    /\ pc = "stopped"
    /\ cycle > 0
    /\ 0 < Len(analysed)
    /\ Len(analysed) < Len(symbols)

\* C6: whatever the outcome of a symbol's analysis (False, True or an
\* exception), the loop goes on to the next symbol: the symbols are analysed
\* once each in list order, and a cycle that is not interrupted reaches its end.
C6_CycleCompletes ==
    /\ [](IsPrefix(analysed, symbols) /\ (pc = "cycle_end" => analysed = symbols))
    /\ [][AnalysisStep =>
            /\ analysed' = Append(analysed, symbols[idx])
            /\ pc' = IF Len(analysed') < Len(symbols) THEN "analyze" ELSE "cycle_end"]_vars
    /\ (pc = "analyze") ~> (pc = "cycle_end" \/ interrupted)

C6_Witness ==
    /\ pc = "cycle_end"
    /\ analysed = symbols
    /\ result = "raised"
    /\ trade_history # <<>>

\* C7: closing a position that is not open fails and leaves the open list and
\* the trade history unchanged.
C7_CloseOfUnopenedFails ==
    (/\ api.op = "simulate_position_exit"
     /\ \A i \in DOMAIN api.positions_before : api.positions_before[i] # api.arg)
    => /\ ~api.ret
       /\ positions = api.positions_before
       /\ trade_history = api.trades_before

\* C8: every step leaves the old trade history as a prefix of the new one.
C8_AppendOnly == [][IsPrefix(trade_history, trade_history')]_vars

C8_Witness ==
    \E i, j \in DOMAIN trade_history :
        /\ i < j
        /\ trade_history[i].action = "open"
        /\ trade_history[j].action = "close"
        /\ Len(trade_history) > j

\* C9: opening a position and then closing that position leaves the open
\* list as it was before the two calls and appends an open and a close trade
\* of the position's symbol and side.
C9_RoundTrip ==
    (/\ api.op = "simulate_position_exit"
     /\ api.prev.op = "simulate_order_placement"
     /\ api.prev.ret
     /\ api.arg = Last(api.positions_before))
    => LET before == Front(api.positions_before)
           n      == Len(api.trades_before) - 1
       IN  /\ positions = before
           /\ Len(trade_history) = n + 2
           /\ SubSeq(trade_history, 1, n) = Front(api.trades_before)
           /\ trade_history[n + 1].action = "open"
           /\ trade_history[n + 2].action = "close"
           /\ \A k \in {n + 1, n + 2} :
                /\ trade_history[k].symbol = api.arg.symbol
                /\ trade_history[k].side = api.arg.side

\* the simulate_order_placement calls of the last analysis are the buy limit
\* orders of the given levels, in their order
IntentsMatch(levels, position_size) ==
    /\ Len(calls) = Len(levels)
    /\ \A i \in DOMAIN levels :
        /\ calls[i].order.symbol = Last(analysed)
        /\ calls[i].order.side = "buy"
        /\ calls[i].order.type = "limit"
        /\ calls[i].order.amount = (position_size * levels[i].percentage) \div 100
        /\ calls[i].order.delay = 900 * (i - 1)

ScaledAccumulation ==
    /\ Executed
    /\ ExecutedPhase = "ACCUMULATION"
    /\ ExecutedPositionMgmt.entry_method.type = "scaled_entry"

\* C10 as claimed: the N scaling levels inside entry_method give N buy limit
\* orders, in order, with amount position_size * percentage / 100 and delay
\* 900 * i.
C10_LevelsInEntryMethod ==
    (ScaledAccumulation /\ ExecutedPositionMgmt.entry_method.has_scaling_levels)
    => IntentsMatch(ExecutedPositionMgmt.entry_method.scaling_levels,
                    ExecutedPositionMgmt.position_size.percentage)

WellFormed(levels) == \A i \in DOMAIN levels : parse_percentage(levels[i].price_offset).ok

\* C10 as amended: the N scaling levels of position_mgmt['scaling_levels'],
\* when every price_offset is numeric, give N buy limit orders in the order of
\* the levels, with amount position_size * percentage / 100 and delay 900 * i,
\* each handed to simulate_order_placement in that order; with a complete
\* risk_mgmt the N positions opened are the last N of the open list.
C10_LevelsInPositionMgmt ==
    (/\ ScaledAccumulation
     /\ ExecutedPositionMgmt.has_scaling_levels
     /\ WellFormed(ExecutedPositionMgmt.scaling_levels))
    => LET levels == ExecutedPositionMgmt.scaling_levels
           n      == Len(levels)
           risk   == ExecutedRiskMgmt
       IN  /\ IntentsMatch(levels, ExecutedPositionMgmt.position_size.percentage)
           /\ \A i \in DOMAIN levels :
                calls[i].order.price_offset = parse_percentage(levels[i].price_offset).value
           /\ (risk.stop_loss.has /\ risk.take_profit.has) =>
                /\ Len(positions) >= n
                /\ \A i \in DOMAIN levels :
                     positions[Len(positions) - n + i] = new_position(calls[i].order, risk)

C10_Witness ==
    /\ ScaledAccumulation
    /\ ExecutedPositionMgmt.has_scaling_levels
    /\ Len(ExecutedPositionMgmt.scaling_levels) >= 2
    /\ WellFormed(ExecutedPositionMgmt.scaling_levels)
    /\ Len(calls) = Len(ExecutedPositionMgmt.scaling_levels)
    /\ result = "True"

\* the orders an arm places: side, type and the keys of the order dict
ArmOrder(selected, order) ==
    CASE selected = "accumulation" ->
            order.side = "buy" /\ order.type = "limit" /\ "delay" \in DOMAIN order
      [] selected = "distribution" ->
            order.side = "sell" /\ order.type = "market"
      [] selected = "markup" ->
            order.side = "buy" /\ order.type = "market"
      [] selected = "markdown" ->
            order.side = "sell" /\ order.type = "limit"
      [] selected = "consolidation" ->
            /\ order.side = "buy" /\ order.type = "limit"
            /\ "price_offset" \in DOMAIN order /\ "delay" \notin DOMAIN order
      [] selected = "neutral" ->
            /\ order.side = "buy" /\ order.type = "limit"
            /\ "price_offset" \notin DOMAIN order

RecognizedPhases == {"ACCUMULATION", "DISTRIBUTION", "MARKUP", "MARKDOWN", "CONSOLIDATION"}

\* C11: execute_strategy, handed instructions that carry a phase and
\* execution_instructions, runs exactly the arm its phase names (the neutral
\* arm for NEUTRAL and for any other phase value): every order placed is of
\* that arm's kind, and a phase that is not recognized ends as a success,
\* never as an error.
C11_PhaseDispatch ==
    Executed =>
        /\ arm = CASE ExecutedPhase = "ACCUMULATION"  -> "accumulation"
                   [] ExecutedPhase = "DISTRIBUTION"  -> "distribution"
                   [] ExecutedPhase = "MARKUP"        -> "markup"
                   [] ExecutedPhase = "MARKDOWN"      -> "markdown"
                   [] ExecutedPhase = "CONSOLIDATION" -> "consolidation"
                   [] OTHER                           -> "neutral"
        /\ \A i \in DOMAIN calls : ArmOrder(arm, calls[i].order)
        /\ ExecutedPhase \notin RecognizedPhases => result = "True"

C11_Witness ==
    /\ Executed
    /\ ExecutedPhase \notin RecognizedPhases \cup {"NEUTRAL"}
    /\ arm = "neutral"
    /\ calls # <<>>
    /\ result = "True"

\* the first of the six steps that does not pass, given what the service
\* answers and the open list; 6 when the five gates pass
FirstFailing(sigR, insR, valR, ps) ==
    IF ~sigR.ok THEN 1
    ELSE IF ~sigR.json.has_confidence \/ sigR.json.confidence < confidence_threshold THEN 2
    ELSE IF ~insR.ok THEN 3
    ELSE IF ~(valR.ok /\ valR.json.has_valid /\ valR.json.valid) THEN 4
    ELSE IF Len(ps) >= max_positions THEN 5
    ELSE 6

\* r is an analysis that went through the steps in order up to the first
\* failing one and did nothing after it
GateOrder(r, S, n) ==
    /\ r.steps = SubSeq(AllSteps, 1, n)
    /\ n < 6 => (r.st = S /\ r.executed = None /\ r.arm = "none")
    /\ n = 6 => r.executed # None

\* C12: analyze_symbol goes through fetch signal, confidence gate, fetch
\* instructions, validate, position-count gate and execute strategy in that
\* order and ends at the first step that fails: whatever the service answers,
\* nothing after the failing step is done (no call, no ledger change), and
\* execute_strategy is reached only when the five earlier steps passed.
C12_GateOrder ==
    /\ [](pc = "analyze" =>
            \A sigR \in SignalResponses, insR \in InstructionResponses,
               valR \in ValidationResponses :
                GateOrder(analyze_symbol(State(positions, trade_history, now, <<>>),
                                         symbols[idx], sigR, insR, valR),
                          State(positions, trade_history, now, <<>>),
                          FirstFailing(sigR, insR, valR, positions)))
    /\ [][AnalysisStep =>
            /\ IsPrefix(steps', AllSteps)
            /\ steps' # AllSteps =>
                    /\ positions' = positions
                    /\ trade_history' = trade_history
                    /\ calls' = <<>>
                    /\ executed' = None
            /\ steps' = AllSteps =>
                    /\ signal' # None
                    /\ signal'.confidence >= confidence_threshold
                    /\ executed' # None
                    /\ Len(positions) < max_positions]_vars

C12_Witness ==
    /\ steps = SubSeq(AllSteps, 1, 5)
    /\ result = "False"
    /\ Len(positions) >= max_positions
    /\ signal # None
    /\ signal.confidence >= confidence_threshold

\* r is a skipped symbol: analyze_symbol returned False and left the ledger as S
Skipped(r, S) ==
    /\ r.ret = "False"
    /\ r.st.positions = S.positions
    /\ r.st.trade_history = S.trade_history

\* C13: when the signal is unavailable, the instructions are unavailable, or
\* the validator rejects (a failed validation call counts as a rejection),
\* analyze_symbol returns False and positions and trade_history are unchanged.
C13_SkipOnUnavailable ==
    /\ [](pc = "analyze" =>
            \A sigR \in SignalResponses, insR \in InstructionResponses,
               valR \in ValidationResponses :
                FirstFailing(sigR, insR, valR, positions) \in {1, 3, 4} =>
                    Skipped(analyze_symbol(State(positions, trade_history, now, <<>>),
                                           symbols[idx], sigR, insR, valR),
                            State(positions, trade_history, now, <<>>)))
    /\ [][(AnalysisStep /\ Len(steps') \in {1, 3, 4}) =>
            /\ result' = "False"
            /\ positions' = positions
            /\ trade_history' = trade_history]_vars

C13_Witness ==
    /\ steps = SubSeq(AllSteps, 1, 4)
    /\ result = "False"
    /\ positions # <<>>
    /\ Len(positions) < max_positions

\* trade is the 'open' record of position
OpenTradeOf(trade, position) ==
    /\ trade.action = "open"
    /\ trade.symbol = position.symbol
    /\ trade.side = position.side
    /\ trade.amount = position.amount
    /\ trade.price = position.entry_price
    /\ trade.timestamp = position.timestamp

\* C14: after every call of simulate_order_placement, successful or failed,
\* either exactly one position was added to the open list and exactly one
\* matching 'open' trade was appended to the history, or neither list
\* changed; a successful call is of the first kind.
C14_AtomicOpen ==
    api.op = "simulate_order_placement" =>
        /\ \/ /\ Len(positions) = Len(api.positions_before) + 1
              /\ Front(positions) = api.positions_before
              /\ Len(trade_history) = Len(api.trades_before) + 1
              /\ Front(trade_history) = api.trades_before
              /\ Last(positions).symbol = api.arg.symbol
              /\ OpenTradeOf(Last(trade_history), Last(positions))
           \/ /\ positions = api.positions_before
              /\ trade_history = api.trades_before
        /\ api.ret => Len(positions) = Len(api.positions_before) + 1

C14_Witness ==
    /\ api.op = "simulate_order_placement"
    /\ ~api.ret
    /\ positions # <<>>
    /\ positions = api.positions_before
    /\ trade_history = api.trades_before

\* text has a character no number has
NonNumeric(text) == \E i \in DOMAIN text : text[i] \notin Digits \cup {".", "-", "+", "%"}

\* the last analysis handed execute_strategy a percentage string that is not
\* a number, in a scaling level or in the limit entry's price_offset
MalformedRun ==
    /\ Executed
    /\ \/ /\ ScaledAccumulation
          /\ ExecutedPositionMgmt.has_scaling_levels
          /\ \E i \in DOMAIN ExecutedPositionMgmt.scaling_levels :
                NonNumeric(ExecutedPositionMgmt.scaling_levels[i].price_offset)
       \/ /\ ExecutedPhase = "CONSOLIDATION"
          /\ ExecutedPositionMgmt.entry_method.type = "limit_entry"
          /\ ExecutedPositionMgmt.entry_method.has_price_offset
          /\ NonNumeric(ExecutedPositionMgmt.entry_method.price_offset)

\* C15: a percentage string that is not a number, in a scaling level or in
\* the limit entry's price_offset, makes execute_strategy return False; the
\* failure does not leave analyze_symbol as an exception and the cycle goes
\* on with the next symbol.
C15_MalformedPercentage ==
    /\ [](MalformedRun => result = "False")
    /\ [][(AnalysisStep /\ MalformedRun') =>
            /\ analysed' = Append(analysed, symbols[idx])
            /\ pc' = IF idx < Len(symbols) THEN "analyze" ELSE "cycle_end"]_vars

C15_Witness ==
    /\ MalformedRun
    /\ ExecutedPhase = "ACCUMULATION"
    /\ result = "False"
    /\ calls # <<>>
    /\ pc = "analyze"
    /\ Len(analysed) = 1

Views == {"display_portfolio_status", "get_performance_summary"}

\* C16: display_portfolio_status and get_performance_summary leave positions
\* and trade_history unchanged; what they report is the number of open
\* positions, the number of trades and (display) the sum of the open
\* positions' values; and a view called right after the same view, with no
\* ledger change between, reports the same.
C16_ViewsIdempotent ==
    api.op \in Views =>
        /\ positions = api.positions_before
        /\ trade_history = api.trades_before
        /\ api.op = "display_portfolio_status" =>
                /\ report.open_positions = Len(positions)
                /\ report.total_trades = Len(trade_history)
                /\ report.has_total => report.total_value = SumValues(positions)
        /\ (api.op = "get_performance_summary" /\ trade_history # <<>>) =>
                /\ report.open_positions = Len(positions)
                /\ report.total_trades = Len(trade_history)
        /\ api.prev.op = api.op => report = api.report_before

C16_Witness ==
    /\ api.op = "display_portfolio_status"
    /\ api.prev.op = "display_portfolio_status"
    /\ Len(positions) = 1
    /\ report.has_total
    /\ report.total_value > 0
    /\ report = api.report_before

\* the trades the step appends
Appended == SubSeq(trade_history', Len(trade_history) + 1, Len(trade_history'))

\* the step is an analysis that runs the distribution, markdown or neutral arm
GuardedArmStep ==
    /\ AnalysisStep
    /\ executed' # None
    /\ executed'.has_execution_instructions
    /\ arm' \in {"distribution", "markdown", "neutral"}

\* the position the arm closes first: any for distribution, a long for markdown
ClosedFirst ==
    LET existing == get_position(positions, symbols[idx])
    IN  IF arm' = "distribution" THEN existing
        ELSE IF arm' = "markdown" /\ existing # None /\ existing.side = "long" THEN existing
        ELSE None

\* positions without the position the arm closed
Kept == IF ClosedFirst = None THEN positions
        ELSE SelectSeq(positions, LAMBDA p : p # ClosedFirst)

\* no position is opened and no 'open' trade appended; the close is done
NothingOpened ==
    /\ positions' = Kept
    /\ \A i \in DOMAIN Appended : Appended[i].action # "open"
    /\ ClosedFirst # None =>
            (Appended # <<>> /\ Appended[1].action = "close"
                            /\ Appended[1].symbol = symbols[idx])

\* exactly one position is opened, of the given side and size
OneOpened(side, amount) ==
    /\ positions' # <<>>
    /\ Front(positions') = Kept
    /\ Last(positions').symbol = symbols[idx]
    /\ Last(positions').side = side
    /\ Last(positions').amount = amount
    /\ Cardinality({i \in DOMAIN Appended : Appended[i].action = "open"}) = 1

\* exactly one order of the given side and size is handed to
\* simulate_order_placement
OnePlaced(side, amount) ==
    /\ Len(calls') = 1
    /\ calls'[1].order.symbol = symbols[idx]
    /\ calls'[1].order.side = side
    /\ calls'[1].order.amount = amount

OpenedFrom(position, order, risk_mgmt) ==
    /\ position.symbol = order.symbol
    /\ position.amount = order.amount
    /\ position.value = account_balance * order.amount
    /\ position.side = "long" <=> order.side = "buy"
    /\ position.side = "short" <=> order.side # "buy"
    /\ position.stop_loss = risk_mgmt.stop_loss.price
    /\ position.take_profit_levels = risk_mgmt.take_profit.levels

\* the number of positions the step opens
OpenedCount == Cardinality({i \in DOMAIN Appended : Appended[i].action = "open"})

\* C18: every open position has value = account_balance x amount; a position
\* is long exactly when the order it was opened from was a buy, short
\* otherwise, and carries the stop-loss price and take-profit levels of the
\* risk_mgmt passed with that order; and a position that stays open keeps
\* every field it was opened with.
C18_PositionFields ==
    /\ [](\A i \in DOMAIN positions :
            /\ positions[i].value = account_balance * positions[i].amount
            /\ positions[i].side \in {"long", "short"})
    /\ [][/\ OpenedCount <= Len(positions')
          /\ \A i \in 1..(Len(positions') - OpenedCount) :
                \E j \in DOMAIN positions : positions[j] = positions'[i]
          /\ (AnalysisStep /\ OpenedCount > 0) =>
                /\ OpenedCount = Len(calls')
                /\ \A i \in DOMAIN calls' :
                     OpenedFrom(positions'[Len(positions') - Len(calls') + i],
                                calls'[i].order,
                                executed'.execution_instructions.risk_management)]_vars

C18_Witness ==
    /\ Executed
    /\ result = "True"
    /\ Len(calls) = 1
    /\ calls[1].order.side = "sell"
    /\ calls[1].ret
    /\ positions # <<>>
    /\ Last(positions).side = "short"
    /\ \E i \in DOMAIN positions : positions[i].side = "long"

Full == Len(positions) >= max_positions

\* C19: once the number of open positions is max_positions or more, no
\* analyze_symbol gets past the position-count gate, whatever the service
\* answers (a DISTRIBUTION or MARKDOWN for a held symbol included), and
\* positions and trade_history never change again.
C19_FrozenWhenFull ==
    /\ []((Full /\ pc = "analyze") =>
            \A sigR \in SignalResponses, insR \in InstructionResponses,
               valR \in ValidationResponses :
                LET r == analyze_symbol(State(positions, trade_history, now, <<>>),
                                        symbols[idx], sigR, insR, valR)
                IN  /\ Len(r.steps) <= 5
                    /\ r.st.positions = positions
                    /\ r.st.trade_history = trade_history)
    /\ [][Full => (positions' = positions /\ trade_history' = trade_history)]_vars
    /\ [][(Full /\ AnalysisStep) => (Len(steps') <= 5 /\ executed' = None)]_vars

C19_Witness ==
    /\ Full
    /\ steps = SubSeq(AllSteps, 1, 5)
    /\ executed = None
    /\ analysed # <<>>
    /\ get_position(positions, Last(analysed)) # None
    /\ pc = "cycle_end"

\* the number of records of th for symbol with the given action
CountTrades(th, symbol, action) ==
    Cardinality({i \in DOMAIN th : th[i].symbol = symbol /\ th[i].action = action})

\* open positions = 'open' records - 'close' records, for every symbol (and
\* so in total)
Consistent(ps, th) ==
    \A symbol \in SymbolSet :
        CountSymbol(ps, symbol) =
            CountTrades(th, symbol, "open") - CountTrades(th, symbol, "close")

\* C20: the number of open positions equals the number of 'open' records
\* minus the number of 'close' records of the trade history, per symbol: a
\* close removes exactly one position per close record, even when two open
\* positions have equal field values.  Stated for the close of a position
\* that is open, called on a ledger whose books agree, so that a violation
\* is the close's own doing.
C20_BookkeepingConsistent ==
    (/\ api.op = "simulate_position_exit"
     /\ \E i \in DOMAIN api.positions_before : api.positions_before[i] = api.arg
     /\ Consistent(api.positions_before, api.trades_before))
    => Consistent(positions, trade_history)

\* the step is an analysis that got to execute_strategy
StrategyStep == AnalysisStep /\ steps' = AllSteps

\* C21: whenever execute_strategy returns False for a symbol, positions and
\* trade_history are as they were before the call: no part of the arm's
\* orders stays applied.
C21_FailureAllOrNothing ==
    [][(StrategyStep /\ result' = "False") =>
            (positions' = positions /\ trade_history' = trade_history)]_vars

\* C22: whenever analyze_symbol returns True after its arm built at least one
\* order, every order built resulted in a position added to the open list and
\* an 'open' trade appended: a simulate_order_placement that failed is never
\* reported as a successful strategy execution.
C22_SuccessMeansApplied ==
    [][(StrategyStep /\ result' = "True" /\ calls' # <<>>) =>
            /\ \A i \in DOMAIN calls' : calls'[i].ret
            /\ OpenedCount = Len(calls')
            /\ Len(positions') >= Len(calls')
            /\ \A i \in DOMAIN calls' :
                    positions'[Len(positions') - Len(calls') + i].symbol = symbols[idx]]_vars

\* the entry method type each of the three arms acts on
ExpectedEntry(selected) ==
    CASE selected = "accumulation"  -> "scaled_entry"
      [] selected = "markup"        -> "immediate_entry"
      [] selected = "consolidation" -> "limit_entry"

\* the last analysis ran an arm whose entry method is not the one it acts on
EntryMismatch ==
    /\ Executed
    /\ arm \in {"accumulation", "markup", "consolidation"}
    /\ ExecutedPositionMgmt.entry_method.type # ExpectedEntry(arm)

\* C23: when the entry method type is not the one the arm acts on
\* (accumulation without scaled_entry, markup without immediate_entry,
\* consolidation without limit_entry), the arm builds no order, positions and
\* trade_history stay as they were, and execute_strategy returns True.
C23_EntryMismatchNoOp ==
    /\ [](EntryMismatch => (calls = <<>> /\ result = "True"))
    /\ [][(AnalysisStep /\ EntryMismatch') =>
            (positions' = positions /\ trade_history' = trade_history)]_vars

C23_Witness ==
    /\ EntryMismatch
    /\ arm = "markup"
    /\ calls = <<>>
    /\ result = "True"
    /\ positions # <<>>

====
